---- MODULE Spec2Model ----
(***************************************************************************)
(* Model of balance-tui: main (src/src/main.rs) with its command line      *)
(* (src/src/cli.rs), and the interactive session (src/src/ui.rs): the      *)
(* session loop `tui`, its key dispatch, App::update_eq, the cursor that   *)
(* `ui` sets and the terminal/clipboard resources acquired and released.   *)
(*                                                                         *)
(* Text is a sequence of one-character strings.  chem_eq (Equation::new,   *)
(* EquationBalancer::balance) is an external crate; it is represented by a *)
(* small deterministic evaluator over a three-symbol equation language     *)
(* ("H", "O" are elements, ">" is the arrow) that produces every outcome   *)
(* kind update_eq distinguishes.                                           *)
(***************************************************************************)
EXTENDS Integers, Sequences, FiniteSets, TLC

VARIABLES pc, result, raw_mode, alt_screen, mouse_capture, cursor_hidden,
          app, clipboard, arm, scenario_d, argv, args, stdout, cursor_position

vars == <<pc, result, raw_mode, alt_screen, mouse_capture, cursor_hidden,
          app, clipboard, arm, scenario_d, argv, args, stdout, cursor_position>>

\* the state of main outside tui: the parsed command line and what was printed
cli == <<argv, args, stdout>>

\* history variables: arm is the match arm the last event took; scenario_d
\* follows the key sequence i, <character>, Esc, y begun on a success
hist == <<arm, scenario_d>>

term == <<raw_mode, alt_screen, mouse_capture, cursor_hidden>>

(* ---------------------------------------------------------------------- *)
(* Bounds of the exploration                                               *)
(* ---------------------------------------------------------------------- *)

\* longest input the user types
MaxLen == 4

\* most characters outside the equation language the user types after it
MaxJunk == 1

\* the window of input lengths around the capacity of a u16 column that the
\* long-input specification explores
LongMin == 65530

LongMax == 65538

(* ---------------------------------------------------------------------- *)
(* Characters and key events                                               *)
(* ---------------------------------------------------------------------- *)

Elements == {"H", "O"}

Arrow == ">"

EqChars == Elements \cup {Arrow}

\* the letters the match in tui names
CmdChars == {"q", "i", "e", "y", "c", "["}

\* a character whose UTF-8 encoding takes more than one byte
WideChars == {"é"}

Chars == EqChars \cup CmdChars \cup WideChars

\* char::len_utf8
len_utf8(c) == IF c \in WideChars THEN 2 ELSE 1

\* String::len, the length in bytes
String_len(s) == Len(s) + Len(SelectSeq(s, LAMBDA x : len_utf8(x) = 2))

\* the range of u16
U16 == 65536

\* `as u16`: the low 16 bits
as_u16(n) == n % U16

Modifiers == {"NONE", "CONTROL"}

KeyEvents ==
    [code : {"Char"}, ch : Chars, modifiers : Modifiers]
    \cup [code : {"Esc", "Backspace", "Enter"}, ch : {""}, modifiers : Modifiers]

\* Event variants other than Event::Key
OtherEvents == {"Mouse", "Resize"}

(* ---------------------------------------------------------------------- *)
(* chem_eq stand-in                                                        *)
(* ---------------------------------------------------------------------- *)

Count(s, c) == Len(SelectSeq(s, LAMBDA x : x = c))

ArrowAt(s) == CHOOSE i \in 1..Len(s) : s[i] = Arrow

Left(s) == SubSeq(s, 1, ArrowAt(s) - 1)

Right(s) == SubSeq(s, ArrowAt(s) + 1, Len(s))

ElemsOf(s) == {s[i] : i \in 1..Len(s)}

\* one arrow, element symbols on both sides of it
Parses(s) ==
    /\ Count(s, Arrow) = 1
    /\ \A i \in 1..Len(s) : s[i] \in EqChars
    /\ Left(s) # <<>>
    /\ Right(s) # <<>>

OkEq(l, r) == [tag |-> "Ok", equation |-> l \o <<" -> ">> \o r, err |-> ""]

ErrOf(e) == [tag |-> "Err", equation |-> <<>>, err |-> e]

None == [tag |-> "None", equation |-> <<>>, err |-> ""]

\* Equation::new: ParsingError, IncorrectEquation (the two sides name
\* different elements) or the parsed equation
Equation_new(s) ==
    IF ~Parses(s) THEN ErrOf("ParsingError")
    ELSE IF ElemsOf(Left(s)) # ElemsOf(Right(s)) THEN ErrOf("IncorrectEquation")
    ELSE OkEq(Left(s), Right(s))

\* EquationBalancer::balance on a parsed equation
balance(s) ==
    IF \A e \in Elements : Count(Left(s), e) = Count(Right(s), e)
    THEN OkEq(Left(s), Right(s))
    ELSE ErrOf("Infeasable")

\* Equation::equation (the getter output_body uses)
Equation_equation(o) == o.equation

\* <Equation as Display>::to_string (what the copy arm writes)
Equation_to_string(o) == o.equation

(* ---------------------------------------------------------------------- *)
(* App                                                                     *)
(* ---------------------------------------------------------------------- *)

App_default == [input_mode |-> "Normal", input |-> <<>>, output |-> None]

\* update_eq without its early return on an empty input
update_eq_unguarded(a) ==
    IF Equation_new(a.input).tag # "Ok"
    THEN [a EXCEPT !.output = Equation_new(a.input)]
    ELSE [a EXCEPT !.output = balance(a.input)]

\* update_eq that keeps a success on screen until the next success
update_eq_keeps_success(a) ==
    IF a.input = <<>> THEN [a EXCEPT !.output = None]
    ELSE IF Equation_new(a.input).tag # "Ok"
         THEN IF a.output.tag = "Ok" THEN a
              ELSE [a EXCEPT !.output = Equation_new(a.input)]
         ELSE IF a.output.tag = "Ok" /\ balance(a.input).tag # "Ok" THEN a
              ELSE [a EXCEPT !.output = balance(a.input)]

update_eq(a) ==
    IF a.input = <<>> THEN [a EXCEPT !.output = None]
    ELSE IF Equation_new(a.input).tag # "Ok"
         THEN [a EXCEPT !.output = Equation_new(a.input)]
         ELSE [a EXCEPT !.output = balance(a.input)]

output_body(a) ==
    IF a.output.tag = "None" THEN <<"Waiting for equation...">>
    ELSE IF a.output.tag = "Ok" THEN Equation_equation(a.output)
    ELSE IF a.output.err = "ParsingError" THEN <<"Couldn't parse equation">>
    ELSE IF a.output.err = "IncorrectEquation" THEN <<"Equation was not valid">>
    ELSE <<a.output.err>>

\* a backspace that discards the whole text
pop_clears(s) == <<>>

\* String::pop, line 173
pop(s) == IF s = <<>> THEN s ELSE SubSeq(s, 1, Len(s) - 1)

\* lines 169-170
push_char(a, c) == update_eq([a EXCEPT !.input = Append(@, c)])

\* a backspace arm that forgets to call update_eq
pop_char_stale(a) == [a EXCEPT !.input = pop(@)]

\* lines 173-174
pop_char(a) == update_eq([a EXCEPT !.input = pop(@)])

JunkCount(s) == Len(SelectSeq(s, LAMBDA x : x \notin EqChars))

\* ui lines 194-207: the margin of the layout and the height of the title
\* row above the input box
Margin == 1

TitleHeight == 1

\* ui lines 194-207, chunks[1]: the input box, in a frame whose origin is (0, 0)
chunks_1 == [x |-> Margin, y |-> Margin + TitleHeight]

\* Frame::cursor_position when ui called no set_cursor
NoPosition == <<>>

\* ui line 231, the column before it is stored as u16
set_cursor_x(a) == chunks_1.x + as_u16(String_len(a.input)) + 2

\* ui lines 229-234: what the frame holds after ui, by build: the u16 sum
\* wraps, or with overflow checks it panics
ui_cursor(a) ==
    IF a.input_mode = "Normal"
    THEN {[panic |-> FALSE, position |-> NoPosition]}
    ELSE {[panic |-> FALSE,
           position |-> <<set_cursor_x(a) % U16, chunks_1.y + 1>>]}
         \cup (IF set_cursor_x(a) >= U16
                THEN {[panic |-> TRUE, position |-> NoPosition]}
                ELSE {})

(* ---------------------------------------------------------------------- *)
(* The match of tui: the first arm whose pattern and guard accept           *)
(* ---------------------------------------------------------------------- *)

\* the match with the Editing arms moved above the Ctrl+C arm
MatchArm_editing_first(mode, key) ==
    IF mode = "Editing" /\ key.code = "Esc" THEN "esc"
    ELSE IF mode = "Editing" /\ key.code = "Char" /\ key.ch = "["
            /\ key.modifiers = "CONTROL" THEN "ctrl_bracket"
    ELSE IF mode = "Editing" /\ key.code = "Char" THEN "char"
    ELSE IF mode = "Editing" /\ key.code = "Backspace" THEN "backspace"
    ELSE IF key.code = "Char" /\ key.ch = "c" /\ key.modifiers = "CONTROL" THEN "ctrl_c"
    ELSE IF mode = "Normal" /\ ((key.code = "Char" /\ key.ch = "q") \/ key.code = "Esc")
         THEN "quit"
    ELSE IF mode = "Normal" /\ key.code = "Char" /\ key.ch \in {"i", "e"} THEN "edit"
    ELSE IF mode = "Normal" /\ key.code = "Char" /\ key.ch = "y" THEN "copy"
    ELSE "other"

MatchArm(mode, key) ==
    IF key.code = "Char" /\ key.ch = "c" /\ key.modifiers = "CONTROL" THEN "ctrl_c"
    ELSE IF mode = "Normal" /\ ((key.code = "Char" /\ key.ch = "q") \/ key.code = "Esc")
         THEN "quit"
    ELSE IF mode = "Normal" /\ key.code = "Char" /\ key.ch \in {"i", "e"} THEN "edit"
    ELSE IF mode = "Normal" /\ key.code = "Char" /\ key.ch = "y" THEN "copy"
    ELSE IF mode = "Editing" /\ key.code = "Esc" THEN "esc"
    ELSE IF mode = "Editing" /\ key.code = "Char" /\ key.ch = "["
            /\ key.modifiers = "CONTROL" THEN "ctrl_bracket"
    ELSE IF mode = "Editing" /\ key.code = "Char" THEN "char"
    ELSE IF mode = "Editing" /\ key.code = "Backspace" THEN "backspace"
    ELSE "other"

(* ---------------------------------------------------------------------- *)
(* Session                                                                 *)
(* ---------------------------------------------------------------------- *)

Idle == [step |-> "idle", prior |-> <<>>, clip |-> <<>>]

\* the next value of scenario_d when the event takes the arm `name`
ScenarioNext(name) ==
    IF name = "edit" /\ app.output.tag = "Ok"
    THEN [step |-> "i", prior |-> app.output.equation, clip |-> clipboard]
    ELSE IF scenario_d.step = "i" /\ name = "char"
    THEN [scenario_d EXCEPT !.step = "typed"]
    ELSE IF scenario_d.step = "typed" /\ name = "esc"
    THEN [scenario_d EXCEPT !.step = "esc"]
    ELSE IF scenario_d.step = "esc" /\ name = "copy"
    THEN [scenario_d EXCEPT !.step = "y"]
    ELSE Idle

\* ChemArgs before the command line is parsed, and with no positional
NoEquation == [equation |-> [some |-> FALSE, text |-> <<>>]]

SomeEquation(s) == [equation |-> [some |-> TRUE, text |-> s]]

\* the command line: no positional, or one positional string
NoArg == [present |-> FALSE, text |-> <<>>]

\* positional strings tried: balanced, parsing but unbalanced, one side
\* naming an element the other lacks, and no arrow at all
ArgStrings ==
    {<<"H", ">", "H">>, <<"O", ">", "O">>, <<"H", "H", ">", "H">>,
     <<"H", ">", "O">>, <<"H">>, <<"q">>}

Argvs == {NoArg} \cup {[present |-> TRUE, text |-> s] : s \in ArgStrings}

\* bpaf converts the positional with Equation's FromStr
Equation_from_str(s) == Equation_new(s)

\* what println!("{}", ...) shows for the outcome of balancing
Displayed(o) == IF o.tag = "Ok" THEN Equation_to_string(o) ELSE <<o.err>>

Init ==
    /\ pc = "main"
    /\ argv \in Argvs
    /\ args = NoEquation
    /\ stdout = <<>>
    /\ cursor_position = NoPosition
    /\ result = "none"
    /\ raw_mode = FALSE
    /\ alt_screen = FALSE
    /\ mouse_capture = FALSE
    /\ cursor_hidden = FALSE
    /\ app = App_default
    /\ clipboard = <<"?">>
    /\ arm = "none"
    /\ scenario_d = Idle

\* `?` on an Err, or the final Ok(()): tui returns and its locals are dropped
Return(r) ==
    /\ pc' = "done"
    /\ result' = r
    /\ app' = App_default

\* the Terminal goes out of scope: it may show a cursor it had hidden
TerminalDrop == cursor_hidden' \in {cursor_hidden, FALSE}

\* cli.rs lines 8-12 with main.rs line 9: run() yields ChemArgs, or reports
\* a positional that is not an Equation and ends the process with a failure
chem_args_run(a) ==
    IF ~a.present THEN [ok |-> TRUE, args |-> NoEquation]
    ELSE IF Equation_from_str(a.text).tag = "Ok"
         THEN [ok |-> TRUE, args |-> SomeEquation(a.text)]
         ELSE [ok |-> FALSE, args |-> NoEquation]

\* main.rs lines 8-9: install the error reporter (the first installation in
\* the process, which succeeds), then parse the command line
MainSetup ==
    /\ pc = "main"
    /\ \/ /\ chem_args_run(argv).ok
          /\ args' = chem_args_run(argv).args
          /\ pc' = "main_dispatch"
          /\ UNCHANGED result
       \/ /\ ~chem_args_run(argv).ok
          /\ pc' = "exited"
          /\ result' = "Err"
          /\ UNCHANGED args
    /\ UNCHANGED <<term, app, clipboard, hist, argv, stdout, cursor_position>>

\* an equation argument that is printed and then opens the session anyway
MainOneShot_falls_through ==
    /\ pc = "main_dispatch"
    /\ args.equation.some
    /\ stdout' = Append(stdout, Displayed(balance(args.equation.text)))
    /\ pc' = "enable_raw_mode"
    /\ UNCHANGED <<result, term, app, clipboard, hist, argv, args, cursor_position>>

\* main.rs lines 11-14
MainOneShot ==
    /\ pc = "main_dispatch"
    /\ args.equation.some
    /\ stdout' = Append(stdout, Displayed(balance(args.equation.text)))
    /\ pc' = "exited"
    /\ result' = "Ok"
    /\ UNCHANGED <<term, app, clipboard, hist, argv, args, cursor_position>>

\* main.rs line 16: no equation argument, ui::tui() is called
MainTui ==
    /\ pc = "main_dispatch"
    /\ ~args.equation.some
    /\ pc' = "enable_raw_mode"
    /\ UNCHANGED <<result, term, app, clipboard, hist, cli, cursor_position>>

\* line 137
EnableRawMode ==
    /\ pc = "enable_raw_mode"
    /\ \/ /\ raw_mode' = TRUE
          /\ pc' = "enter_alternate_screen"
          /\ UNCHANGED <<result, app, hist>>
       \/ /\ Return("Err")
          /\ UNCHANGED <<raw_mode, hist>>
    /\ UNCHANGED <<alt_screen, mouse_capture, cursor_hidden, clipboard, cli, cursor_position>>

\* line 139: the two commands are written in order; a failure may come after
\* either was written
EnterAlternateScreen ==
    /\ pc = "enter_alternate_screen"
    /\ \/ /\ alt_screen' = TRUE
          /\ mouse_capture' = TRUE
          /\ pc' = "terminal_new"
          /\ UNCHANGED <<result, app, hist>>
       \/ /\ \E a \in BOOLEAN, m \in BOOLEAN :
                /\ m => a
                /\ alt_screen' = a
                /\ mouse_capture' = m
          /\ Return("Err")
          /\ UNCHANGED hist
    /\ UNCHANGED <<raw_mode, cursor_hidden, clipboard, cli, cursor_position>>

\* lines 141-142
TerminalNew ==
    /\ pc = "terminal_new"
    /\ \/ /\ pc' = "clipboard_new"
          /\ UNCHANGED <<result, app, hist>>
       \/ Return("Err") /\ UNCHANGED hist
    /\ UNCHANGED <<term, clipboard, cli, cursor_position>>

\* lines 145-146
ClipboardNew ==
    /\ pc = "clipboard_new"
    /\ \/ /\ pc' = "draw"
          /\ app' = App_default
          /\ UNCHANGED <<result, hist>>
       \/ Return("Err") /\ UNCHANGED hist
    /\ UNCHANGED <<term, clipboard, cli, cursor_position>>

\* line 149: Terminal::draw runs ui, then shows the cursor at the position ui
\* set or hides it when ui set none
Draw ==
    /\ pc = "draw"
    /\ \/ \E f \in ui_cursor(app) :
            IF f.panic
            THEN /\ pc' = "panicked"
                 /\ result' = "Panic"
                 /\ app' = App_default
                 /\ TerminalDrop
                 /\ arm' = "draw_panicked"
                 /\ scenario_d' = Idle
                 /\ UNCHANGED cursor_position
            ELSE /\ cursor_position' = f.position
                 /\ cursor_hidden' = (f.position = NoPosition)
                 /\ pc' = "read"
                 /\ arm' = "none"
                 /\ UNCHANGED <<result, app, scenario_d>>
       \/ /\ Return("Err")
          /\ TerminalDrop
          /\ arm' = "draw_failed"
          /\ scenario_d' = Idle
          /\ UNCHANGED cursor_position
    /\ UNCHANGED <<raw_mode, alt_screen, mouse_capture, clipboard, cli>>

\* line 150: event::read()? fails
ReadFails ==
    /\ pc = "read"
    /\ Return("Err")
    /\ TerminalDrop
    /\ arm' = "read_failed"
    /\ scenario_d' = Idle
    /\ UNCHANGED <<raw_mode, alt_screen, mouse_capture, clipboard, cli, cursor_position>>

\* an event that is not a key ending the loop
NonKeyEvent_quits(ev) ==
    /\ pc = "read"
    /\ pc' = "cleanup"
    /\ arm' = "not_key"
    /\ UNCHANGED <<result, term, app, clipboard, scenario_d, cli, cursor_position>>

\* line 150: an event that is not Event::Key skips the match
NonKeyEvent(ev) ==
    /\ pc = "read"
    /\ pc' = "draw"
    /\ arm' = "not_key"
    /\ UNCHANGED <<result, term, app, clipboard, scenario_d, cli, cursor_position>>

\* line 150-151: a key event is matched; arm records the arm taken
Matched(key, name) ==
    /\ pc = "read"
    /\ MatchArm(app.input_mode, key) = name
    /\ arm' = name
    /\ scenario_d' = ScenarioNext(name)
    /\ UNCHANGED <<cli, cursor_position>>

\* line 152
KeyCtrlC(key) ==
    /\ Matched(key, "ctrl_c")
    /\ pc' = "cleanup"
    /\ UNCHANGED <<result, term, app, clipboard>>

\* line 153
KeyQuit(key) ==
    /\ Matched(key, "quit")
    /\ pc' = "cleanup"
    /\ UNCHANGED <<result, term, app, clipboard>>

\* a mode switch that also discards the text
leave_editing_clears(a) == [App_default EXCEPT !.input_mode = "Normal"]

enter_editing(a) == [a EXCEPT !.input_mode = "Editing"]

leave_editing(a) == [a EXCEPT !.input_mode = "Normal"]

\* lines 154-156
KeyEdit(key) ==
    /\ Matched(key, "edit")
    /\ app' = enter_editing(app)
    /\ pc' = "draw"
    /\ UNCHANGED <<result, term, clipboard>>

\* copying what was typed instead of the balanced equation
copy_text_input(a) == a.input

\* the text line 159 hands to set_text
copy_text(a) == Equation_to_string(a.output)

\* copying whatever the output holds
copies_any(a) == a.output.tag # "None"

\* line 158
copies(a) == a.output.tag = "Ok"

\* a copy arm that ignores the outcome of set_text
KeyCopy_swallows(key) ==
    /\ Matched(key, "copy")
    /\ pc' = "draw"
    /\ IF copies(app)
       THEN clipboard' \in {copy_text(app), clipboard}
       ELSE UNCHANGED clipboard
    /\ UNCHANGED <<result, term, app>>

\* lines 157-161
KeyCopy(key) ==
    /\ Matched(key, "copy")
    /\ IF copies(app)
       THEN \/ /\ clipboard' = copy_text(app)
               /\ pc' = "draw"
               /\ UNCHANGED <<result, term, app>>
            \/ /\ Return("Err")
               /\ TerminalDrop
               /\ UNCHANGED <<raw_mode, alt_screen, mouse_capture, clipboard>>
       ELSE /\ pc' = "draw"
            /\ UNCHANGED <<result, term, app, clipboard>>

\* line 162
KeyEsc(key) ==
    /\ Matched(key, "esc")
    /\ app' = leave_editing(app)
    /\ pc' = "draw"
    /\ UNCHANGED <<result, term, clipboard>>

\* Ctrl+[ falling through to the character arm as well
KeyCtrlBracket_appends(key) ==
    /\ Matched(key, "ctrl_bracket")
    /\ app' = leave_editing(push_char(app, key.ch))
    /\ pc' = "draw"
    /\ UNCHANGED <<result, term, clipboard>>

\* lines 163-167
KeyCtrlBracket(key) ==
    /\ Matched(key, "ctrl_bracket")
    /\ app' = leave_editing(app)
    /\ pc' = "draw"
    /\ UNCHANGED <<result, term, clipboard>>

\* the user's typing stays within the bounds: equation characters, then at
\* most MaxJunk times one other character at the end of the input; in the
\* window of long inputs, the character the long input is made of
Typable(s, c) ==
    \/ /\ Len(s) < MaxLen
       /\ IF c \in EqChars THEN JunkCount(s) = 0
          ELSE /\ JunkCount(s) < MaxJunk
               /\ IF JunkCount(s) = 0 THEN TRUE ELSE s[Len(s)] = c
    \/ /\ c = "H"
       /\ Len(s) >= LongMin
       /\ Len(s) < LongMax

\* the user's erasing stays within the bounds: a long input is not erased
\* below the window of long inputs
Erasable(s) == Len(s) <= MaxLen \/ Len(s) > LongMin

\* a character arm that leaves the loop when the input does not balance
KeyChar_abort(key) ==
    /\ Matched(key, "char")
    /\ Typable(app.input, key.ch)
    /\ app' = push_char(app, key.ch)
    /\ pc' = IF app'.output.tag = "Err" THEN "cleanup" ELSE "draw"
    /\ UNCHANGED <<result, term, clipboard>>

\* a character arm in which q still quits
KeyChar_runs_commands(key) ==
    /\ Matched(key, "char")
    /\ Typable(app.input, key.ch)
    /\ app' = push_char(app, key.ch)
    /\ pc' = IF key.ch = "q" THEN "cleanup" ELSE "draw"
    /\ UNCHANGED <<result, term, clipboard>>

\* lines 168-171
KeyChar(key) ==
    /\ Matched(key, "char")
    /\ Typable(app.input, key.ch)
    /\ app' = push_char(app, key.ch)
    /\ pc' = "draw"
    /\ UNCHANGED <<result, term, clipboard>>

\* lines 172-175
KeyBackspace(key) ==
    /\ Matched(key, "backspace")
    /\ Erasable(app.input)
    /\ app' = pop_char(app)
    /\ pc' = "draw"
    /\ UNCHANGED <<result, term, clipboard>>

\* a catch-all arm that flips the mode
KeyOther_toggles(key) ==
    /\ Matched(key, "other")
    /\ app' = IF app.input_mode = "Normal" THEN enter_editing(app)
              ELSE leave_editing(app)
    /\ pc' = "draw"
    /\ UNCHANGED <<result, term, clipboard>>

\* a catch-all arm that treats the key as a backspace
KeyOther_pops(key) ==
    /\ Matched(key, "other")
    /\ app' = pop_char(app)
    /\ pc' = "draw"
    /\ UNCHANGED <<result, term, clipboard>>

\* line 176
KeyOther(key) ==
    /\ Matched(key, "other")
    /\ pc' = "draw"
    /\ UNCHANGED <<result, term, app, clipboard>>

\* lines 181-189, after the loop: each `?` returns at once on an Err
Cleanup ==
    /\ pc = "cleanup"
    /\ \/ /\ Return("Err")
          /\ TerminalDrop
          /\ UNCHANGED <<raw_mode, alt_screen, mouse_capture>>
       \/ /\ raw_mode' = FALSE
          /\ \E a \in BOOLEAN, m \in BOOLEAN :
                /\ a => m
                /\ alt_screen' = a
                /\ mouse_capture' = m
          /\ Return("Err")
          /\ TerminalDrop
       \/ /\ raw_mode' = FALSE
          /\ alt_screen' = FALSE
          /\ mouse_capture' = FALSE
          /\ Return("Err")
          /\ TerminalDrop
       \/ /\ raw_mode' = FALSE
          /\ alt_screen' = FALSE
          /\ mouse_capture' = FALSE
          /\ cursor_hidden' = FALSE
          /\ Return("Ok")
    /\ UNCHANGED <<clipboard, hist, cli, cursor_position>>

\* lines 150-177: the arms of the match, for the key event read
Dispatch(key) ==
    \/ KeyCtrlC(key)
    \/ KeyQuit(key)
    \/ KeyEdit(key)
    \/ KeyCopy(key)
    \/ KeyEsc(key)
    \/ KeyCtrlBracket(key)
    \/ KeyChar(key)
    \/ KeyBackspace(key)
    \/ KeyOther(key)

Next ==
    \/ MainSetup
    \/ MainOneShot
    \/ MainTui
    \/ EnableRawMode
    \/ EnterAlternateScreen
    \/ TerminalNew
    \/ ClipboardNew
    \/ Draw
    \/ ReadFails
    \/ \E ev \in OtherEvents : NonKeyEvent(ev)
    \/ \E key \in KeyEvents : Dispatch(key)
    \/ Cleanup

Spec == Init /\ [][Next]_vars

\* a session in which the user has held down H for LongMin characters: the
\* state the loop is in after that many passes through lines 168-171
InitLong ==
    /\ pc = "draw"
    /\ result = "none"
    /\ raw_mode = TRUE
    /\ alt_screen = TRUE
    /\ mouse_capture = TRUE
    /\ cursor_hidden = FALSE
    /\ cursor_position = <<set_cursor_x(
            [App_default EXCEPT !.input = [i \in 1..(LongMin - 1) |-> "H"]]),
                           chunks_1.y + 1>>
    /\ app = update_eq([input_mode |-> "Editing",
                        input |-> [i \in 1..LongMin |-> "H"],
                        output |-> None])
    /\ clipboard = <<"?">>
    /\ arm = "char"
    /\ scenario_d = Idle
    /\ argv = NoArg
    /\ args = NoEquation
    /\ stdout = <<>>

\* the program from its start, and from the long-input session state
SpecLong == (Init \/ InitLong) /\ [][Next]_vars

(* ---------------------------------------------------------------------- *)
(* Properties                                                              *)
(* ---------------------------------------------------------------------- *)

\* the spec's validate(input): the outcome update_eq stores for an input
validate(s) == update_eq([App_default EXCEPT !.input = s]).output

InSession == pc \in {"draw", "read", "cleanup"}

CtrlCKey == [code |-> "Char", ch |-> "c", modifiers |-> "CONTROL"]

BackspaceKey == [code |-> "Backspace", ch |-> "", modifiers |-> "NONE"]

\* C1: whenever tui has returned, by a quit key, Ctrl+C or a propagated
\* error, raw mode is disabled, the alternate screen is left and the cursor
\* is restored.
C1_ReleasedOnEveryExit ==
    pc = "done" => (~raw_mode /\ ~alt_screen /\ ~cursor_hidden)

\* C2: at every point where a frame is about to be rendered, the stored
\* output is validate of the current input.
C2_NoStaleness ==
    pc = "draw" => app.output = validate(app.input)

\* a frame is due right after a backspace turned a failing input into one
\* that balances
C2_Witness ==
    /\ pc = "draw"
    /\ arm = "backspace"
    /\ app.input = <<"H", ">", "H">>
    /\ app.output.tag = "Ok"

\* C3: an empty input always goes with an absent result.
C3_EmptyInputAbsentResult ==
    app.input = <<>> => app.output = None

\* a backspace has just left the input empty while editing
C3_Witness ==
    /\ pc = "draw"
    /\ arm = "backspace"
    /\ app.input_mode = "Editing"
    /\ app.input = <<>>
    /\ app.output = None

\* C4 as stated (Scenario D): after i, one character, Esc and y, begun on a
\* success, the clipboard holds the text of that earlier success whenever
\* the edited input does not validate to success.
C4_ScenarioD_CopiesPriorSuccess ==
    (pc = "draw" /\ scenario_d.step = "y" /\ validate(app.input).tag # "Ok")
        => clipboard = scenario_d.prior

\* C4 amended: after i, one character, Esc and y, begun on a success, y
\* copies nothing when the edited input does not validate to success: the
\* result on screen is the outcome of the edited input and the clipboard
\* holds what it held before the sequence.
C4_ScenarioD_CopiesNothing ==
    (pc = "draw" /\ scenario_d.step = "y" /\ validate(app.input).tag # "Ok")
        => (app.output = validate(app.input) /\ clipboard = scenario_d.clip)

\* the four keys have been pressed on the success "H -> H", nothing copied
\* before
C4_Witness ==
    /\ pc = "draw"
    /\ scenario_d.step = "y"
    /\ scenario_d.prior = <<"H", " -> ", "H">>
    /\ scenario_d.clip = <<"?">>
    /\ app.output.tag = "Err"

\* C5: y in Normal mode with an absent or failed result changes nothing and
\* raises no error, and the clipboard changes only by y in Normal mode on a
\* success.
C5_CopyOnlyOnSuccess ==
    [][ /\ (pc = "read" /\ arm' = "copy" /\ app.output.tag # "Ok")
            => (pc' = "draw" /\ result' = result /\ app' = app
                /\ clipboard' = clipboard)
        /\ (clipboard' # clipboard)
            => (pc = "read" /\ arm' = "copy" /\ app.input_mode = "Normal"
                /\ app.output.tag = "Ok") ]_vars

\* y has just been pressed on a failed result and the loop goes on
C5_Witness ==
    /\ pc = "draw"
    /\ arm = "copy"
    /\ app.output.tag = "Err"
    /\ result = "none"

C7_ModeSwitchKeepsText ==
    [][ (pc = "read" /\ arm' \in {"edit", "esc", "ctrl_bracket"})
            => (app'.input_mode # app.input_mode /\ app'.input = app.input
                /\ app'.output = app.output) ]_vars

\* Esc has just left Editing with a balanced equation typed in
C7_Witness ==
    /\ pc = "draw"
    /\ arm = "esc"
    /\ app.input_mode = "Normal"
    /\ app.output.tag = "Ok"

\* C8: whenever the loop waits for an event, Ctrl+C can be dispatched, and
\* dispatching it leaves the loop with input, output and clipboard as they
\* were.
C8_CtrlCQuits ==
    /\ [](pc = "read" => ENABLED Dispatch(CtrlCKey))
    /\ [][ Dispatch(CtrlCKey)
            => (pc' = "cleanup" /\ app' = app /\ clipboard' = clipboard) ]_vars

\* Ctrl+C has just ended the loop from Editing mode with text typed in
C8_Witness ==
    /\ pc = "cleanup"
    /\ arm = "ctrl_c"
    /\ app.input_mode = "Editing"
    /\ app.input # <<>>

\* C9: once q or Esc in Normal mode has ended the loop and tui has
\* returned, raw mode is disabled, the alternate screen is left and the
\* cursor is shown.
C9_QuitReleases ==
    (pc = "done" /\ arm = "quit")
        => (~raw_mode /\ ~alt_screen /\ ~cursor_hidden)

\* C10: an edit whose outcome is a failure stores it as the output, raises
\* no process error, keeps the loop running in the same mode, and the next
\* edit is accepted.
C10_InputErrorsKeepSession ==
    /\ [][ (pc = "read" /\ arm' \in {"char", "backspace"}
             /\ validate(app'.input).tag = "Err")
            => (pc' = "draw" /\ result' = "none"
                /\ app'.input_mode = app.input_mode
                /\ app'.output = validate(app'.input)) ]_vars
    /\ []((pc = "read" /\ app.input_mode = "Editing" /\ app.output.tag = "Err")
            => ENABLED Dispatch(BackspaceKey))

\* a character typed after a success has just produced a balance failure,
\* itself reached through parse failures
C10_Witness ==
    /\ pc = "draw"
    /\ arm = "char"
    /\ app.input_mode = "Editing"
    /\ app.input = <<"H", ">", "H", "H">>
    /\ app.output.err = "Infeasable"

EntersEditing(key) == key.code = "Char" /\ key.ch \in {"i", "e"}

LeavesEditing(key) ==
    \/ key.code = "Esc"
    \/ key.code = "Char" /\ key.ch = "[" /\ key.modifiers = "CONTROL"

CtrlBracketKey == [code |-> "Char", ch |-> "[", modifiers |-> "CONTROL"]

\* the step leaves the session state in place (at pc' = "done" tui has
\* returned and its App no longer exists)
SessionStep == pc = "read" /\ pc' # "done"

\* C13: the mode is always Normal or Editing; the session starts in Normal
\* with empty input and no result; a key changes it exactly as Normal -> Editing
\* on i or e and Editing -> Normal on Esc or Ctrl+[, and no other key or
\* event changes it.
C13_ModeMachine ==
    [][ /\ app'.input_mode \in {"Normal", "Editing"}
        /\ (pc' = "draw" /\ pc # "read") => app' = App_default
        /\ SessionStep =>
              \A key \in KeyEvents :
                  /\ (app.input_mode = "Normal" /\ EntersEditing(key)
                        /\ Dispatch(key)) => app'.input_mode = "Editing"
                  /\ (app.input_mode = "Editing" /\ LeavesEditing(key)
                        /\ Dispatch(key)) => app'.input_mode = "Normal"
        /\ (app'.input_mode # app.input_mode /\ pc' # "done") =>
              /\ pc = "read"
              /\ \E key \in KeyEvents :
                    /\ Dispatch(key)
                    /\ \/ app.input_mode = "Normal" /\ EntersEditing(key)
                       \/ app.input_mode = "Editing" /\ LeavesEditing(key)
      ]_vars

C13_Witness ==
    /\ pc = "draw"
    /\ arm = "edit"
    /\ app.input_mode = "Editing"
    /\ app.input = <<"H", ">">>

\* ---------------------------------------------------------------------
Effects ==
    (IF app'.input_mode # app.input_mode THEN 1 ELSE 0)
    + (IF app'.input # app.input \/ app'.output # app.output THEN 1 ELSE 0)
    + (IF clipboard' # clipboard THEN 1 ELSE 0)
    + (IF pc' = "cleanup" THEN 1 ELSE 0)

\* C14: a key event has at most one effect among a mode transition, an input
\* mutation with re-validation, a clipboard write and a quit; the first
\* matching arm decides, so in Editing Ctrl+C only quits and Ctrl+[ only
\* returns to Normal, neither appending its character, and a key matching no
\* arm changes nothing.
C14_OneEffect ==
    [][ SessionStep =>
          /\ Effects <= 1
          /\ Dispatch(CtrlCKey) => pc' = "cleanup" /\ app' = app
          /\ (app.input_mode = "Editing" /\ Dispatch(CtrlBracketKey)) =>
                /\ app' = [app EXCEPT !.input_mode = "Normal"]
                /\ pc' = "draw"
          /\ \A key \in KeyEvents :
                KeyOther(key) =>
                    /\ MatchArm(app.input_mode, key) = "other"
                    /\ pc' = "draw"
                    /\ UNCHANGED <<app, clipboard, result, term>>
      ]_vars

C14_Witness ==
    /\ pc = "draw"
    /\ arm = "ctrl_bracket"
    /\ app.input_mode = "Normal"
    /\ app.input = <<"H", ">", "H">>

\* ---------------------------------------------------------------------
Printable(key) == key.code = "Char" /\ key.modifiers = "NONE"

\* C15: in Editing a printable character key, q, y, i and e included, is only
\* appended to the input: the loop goes on, the clipboard and the mode stay.
C15_EditingOnlyAppends ==
    [][ \A key \in KeyEvents :
          (app.input_mode = "Editing" /\ Printable(key) /\ Dispatch(key)) =>
              /\ app'.input = Append(app.input, key.ch)
              /\ app'.input_mode = "Editing"
              /\ clipboard' = clipboard
              /\ pc' = "draw"
              /\ result' = result
      ]_vars

C15_Witness ==
    /\ pc = "draw"
    /\ arm = "char"
    /\ app.input_mode = "Editing"
    /\ app.input = <<"H", "q">>

\* ---------------------------------------------------------------------
\* C16: in Normal no key changes input or output; both change only in a
\* step taken in Editing.
C16_NormalKeepsText ==
    [][ /\ (SessionStep /\ app.input_mode = "Normal") =>
              app'.input = app.input /\ app'.output = app.output
        /\ ((app'.input # app.input \/ app'.output # app.output) /\ pc' # "done") =>
              pc = "read" /\ app.input_mode = "Editing"
      ]_vars

C16_Witness ==
    /\ pc = "draw"
    /\ arm = "other"
    /\ app.input_mode = "Normal"
    /\ app.input = <<"H", ">", "H">>
    /\ app.output.tag = "Ok"

\* ---------------------------------------------------------------------
\* C17: a step of the session leaves input as it is, appends one character
\* (Editing and a character key) or removes its last character (Editing and
\* backspace, nothing to remove when it is empty).
C17_InputEdits ==
    [][ pc' # "done" =>
          \/ app'.input = app.input
          \/ /\ app.input_mode = "Editing"
             /\ \E key \in KeyEvents :
                   /\ key.code = "Char"
                   /\ Dispatch(key)
                   /\ app'.input = Append(app.input, key.ch)
          \/ /\ app.input_mode = "Editing"
             /\ \E key \in KeyEvents : key.code = "Backspace" /\ Dispatch(key)
             /\ app.input # <<>>
             /\ app'.input = SubSeq(app.input, 1, Len(app.input) - 1)
      ]_vars

C17_Witness ==
    /\ pc = "draw"
    /\ arm = "backspace"
    /\ app.input = <<"H", ">">>

\* ---------------------------------------------------------------------
\* C18: a clipboard failure ends tui with that error: creating the handle
\* either succeeds or tui returns Err, and y on a success either writes the
\* clipboard or tui returns Err; after the return no event is processed.
C18_ClipboardFailurePropagates ==
    [][ /\ pc = "clipboard_new" =>
              pc' = "draw" \/ (pc' = "done" /\ result' = "Err")
        /\ (pc = "read" /\ arm' = "copy" /\ app.output.tag = "Ok") =>
              \/ pc' = "draw" /\ clipboard' = Equation_to_string(app.output)
              \/ pc' = "done" /\ result' = "Err" /\ clipboard' = clipboard
        /\ pc # "done"
      ]_vars

C18_Witness ==
    /\ pc = "done"
    /\ arm = "copy"
    /\ result = "Err"

\* ---------------------------------------------------------------------
\* C19: an event that is not a key event leaves mode, input, output and
\* clipboard as they are and does not end the session; the loop draws the
\* same state again.
C19_NonKeyEventsNoOp ==
    [][ (pc = "read" /\ arm' = "not_key") =>
            /\ UNCHANGED <<app, clipboard, result, raw_mode, alt_screen,
                           mouse_capture>>
            /\ pc' = "draw"
      ]_vars

C19_Witness ==
    /\ pc = "draw"
    /\ arm = "not_key"
    /\ app.input_mode = "Editing"
    /\ app.input = <<"H", ">">>

\* ---------------------------------------------------------------------
\* C11: in every state the loop has drawn, the cursor is hidden in Normal;
\* in Editing it is shown on the text row of the input box, one character
\* past the end of the input: Len(input) + 1 columns inside the left border.
C11_CursorAfterText ==
    pc = "read" =>
        IF app.input_mode = "Normal"
        THEN cursor_hidden
        ELSE /\ ~cursor_hidden
             /\ cursor_position =
                    <<chunks_1.x + 1 + Len(app.input) + 1, chunks_1.y + 1>>

\* ---------------------------------------------------------------------
\* C20: for every input the session can hold, the column computed in u16 as
\* chunks[1].x + (input.len() as u16) + 2 is the mathematical value
\* x + len + 2: the cast does not truncate and the sum does not overflow.
C20_ColumnFitsU16 ==
    /\ pc # "panicked"
    /\ (pc = "read" /\ app.input_mode = "Editing") =>
          cursor_position[1] = chunks_1.x + String_len(app.input) + 2

====
